---- MODULE Spec2Model ----
(***************************************************************************)
(* Model of src/contract.py: one phone-line Contract object (an            *)
(* MTMContract, a TermContract or a PrepaidContract), the Bill objects the *)
(* driver hands to it, and the three operations new_month, bill_call and   *)
(* cancel_contract.                                                        *)
(*                                                                         *)
(* Money is kept exactly, in mills (1/1000 of a currency unit), so that    *)
(* the 0.025 per-minute rate is an integer: 50.00 is 50000, 0.10 is 100.   *)
(* A date is a record [year, month, day]; Python's None is NoneDate for a  *)
(* date attribute and index 0 for the bill attribute.  The Bill class      *)
(* (bill.py) is not part of the sources at hand: its operators follow the  *)
(* ledger interface of the specification (cost = fixed costs + billed      *)
(* minutes x rate).  A raised exception is recorded in ret.raised together *)
(* with whatever the method had assigned before the raising line.          *)
(***************************************************************************)
EXTENDS Integers, Sequences, FiniteSets, TLC

\* ---- bounds of the model ------------------------------------------------
MaxBills == 3      \* Bill objects the driver creates (cycle advances)
MaxCalls == 2      \* calls billed over the life of the contract

\* ---- constants of contract.py (mills, minutes) ---------------------------
MTM_MONTHLY_FEE == 50000
TERM_MONTHLY_FEE == 20000
TERM_DEPOSIT == 300000
TERM_MINS == 100
MTM_MINS_COST == 50
TERM_MINS_COST == 100
PREPAID_MINS_COST == 25
RechargeThreshold == -10000
RechargeAmount == 25000

\* ---- inputs ---------------------------------------------------------------
Date(y, m, d) == [year |-> y, month |-> m, day |-> d]
NoneDate == [year |-> 0, month |-> 0, day |-> 0]

Kinds == {"MTM", "TERM", "PREPAID"}
StartDates == {Date(2020, 1, 15)}
\* the constructor does not check end > start: the last value is an end
\* that is not after start
EndDates == {Date(2020, 1, 20), Date(2020, 2, 15), Date(2020, 1, 10)}
\* initial prepaid credit, in mills; the constructor does not check
\* balance >= 0: the first value is a negative credit
Credits == {-5000, 0, 10000, 35000, 40000}
\* <<month, year>> arguments of new_month; the driver may repeat or skip months
Cycles == {<<1, 2020>>, <<2, 2020>>, <<1, 2021>>}
\* call.duration, in seconds
Durations == {125, 3000, 4000, 60000}

VARIABLES
    kind,       \* class of the contract object
    start,      \* self.start
    end,        \* self.end (TermContract), NoneDate otherwise
    commit,     \* self.commit (TermContract), FALSE otherwise
    balance,    \* self.balance (PrepaidContract), 0 otherwise
    bill,       \* self.bill: index into bills, 0 for None
    bills,      \* the Bill objects created by the driver, oldest first
    ret,        \* outcome of the last operation
    hist,       \* history, per bill: month and year of its new_month, calls made and their whole minutes
    args,       \* history: the constructor's arguments
    endReached, \* history: some new_month was called with end's month and year
    cancelled   \* history: cancel_contract has returned

vars == <<kind, start, end, commit, balance, bill, bills, ret, hist, args,
          endReached, cancelled>>

\* ---- Bill --------------------------------------------------------------------
Bill_init == [billed_min |-> 0, free_min |-> 0, min_rate |-> 0,
              fixed_cost |-> 0, type |-> ""]
add_fixed_cost(b, cost) == [b EXCEPT !.fixed_cost = @ + cost]
set_rates(b, contract_type, min_cost) ==
    [b EXCEPT !.type = contract_type, !.min_rate = min_cost]
add_billed_minutes(b, n) == [b EXCEPT !.billed_min = @ + n]
add_free_minutes(b, n) == [b EXCEPT !.free_min = @ + n]
get_cost(b) == b.min_rate * b.billed_min + b.fixed_cost

\* ceil(call.duration / 60.0)
Ceil60(duration) == (duration + 59) \div 60
Min(a, b) == IF a < b THEN a ELSE b

Returned(op, v) == [op |-> op, raised |-> FALSE, value |-> v]
Raised(op) == [op |-> op, raised |-> TRUE, value |-> 0]

Init ==
    /\ kind \in Kinds
    /\ start \in StartDates
    /\ end \in (IF kind = "TERM" THEN EndDates ELSE {NoneDate})
    /\ commit = FALSE
    /\ \E credit \in (IF kind = "PREPAID" THEN Credits ELSE {0}) :
          /\ balance = -1 * credit
          /\ args = [start |-> start, end |-> end, balance |-> credit]
    /\ bill = 0
    /\ bills = <<>>
    /\ ret = Returned("__init__", 0)
    /\ hist = <<>>
    /\ endReached = FALSE
    /\ cancelled = FALSE

\* the driver creates a Bill for the month and passes it to new_month, which
\* stores it in self.bill; b is that Bill as new_month leaves it
StoreBill_KeepOld(b, month, year) ==
    /\ bills' = Append(bills, b)
    /\ bill' = IF bill = 0 THEN 1 ELSE bill
    /\ hist' = Append(hist, [month |-> month, year |-> year,
                             calls |-> 0, mins |-> 0])

StoreBill(b, month, year) ==
    /\ bills' = Append(bills, b)
    /\ bill' = Len(bills) + 1
    /\ hist' = Append(hist, [month |-> month, year |-> year,
                             calls |-> 0, mins |-> 0])

\* history of a successful bill_call on the current bill
NoteCall(duration) ==
    hist' = [hist EXCEPT ![bill] = [@ EXCEPT !.calls = @ + 1,
                                             !.mins = @ + Ceil60(duration)]]

NumCalls == LET RECURSIVE S(_)
                S(i) == IF i = 0 THEN 0 ELSE hist[i].calls + S(i - 1)
            IN S(Len(hist))

\* ---- MTMContract ---------------------------------------------------------
MTM_charges_NoFee(b) == set_rates(b, "MTM", MTM_MINS_COST)

\* what MTMContract.new_month registers on its bill argument
MTM_charges(b) ==
    set_rates(add_fixed_cost(b, MTM_MONTHLY_FEE), "MTM", MTM_MINS_COST)

MTMContract_new_month(month, year) ==
    /\ kind = "MTM"
    /\ Len(bills) < MaxBills
    /\ StoreBill(MTM_charges(Bill_init), month, year)
    /\ ret' = Returned("new_month", 0)
    /\ UNCHANGED <<kind, start, end, commit, balance, args, endReached, cancelled>>

\* ---- Contract.bill_call (MTMContract, PrepaidContract) ------------------
Contract_bill_call(duration) ==
    /\ kind \in {"MTM", "PREPAID"}
    /\ NumCalls < MaxCalls
    /\ IF bill = 0
       THEN \* self.bill.add_billed_minutes on None raises
            /\ ret' = Raised("bill_call")
            /\ UNCHANGED <<bills, hist>>
       ELSE /\ bills' = [bills EXCEPT ![bill] =
                            add_billed_minutes(@, Ceil60(duration))]
            /\ NoteCall(duration)
            /\ ret' = Returned("bill_call", 0)
    /\ UNCHANGED <<kind, start, end, commit, balance, bill, args, endReached, cancelled>>

\* ---- Contract.cancel_contract (MTMContract) -----------------------------
Contract_cancel_contract_NoBillZero ==
    /\ kind = "MTM"
    /\ start' = NoneDate
    /\ ret' = Returned("cancel_contract",
                       IF bill = 0 THEN 0 ELSE get_cost(bills[bill]))
    /\ cancelled' = TRUE
    /\ UNCHANGED <<kind, end, commit, balance, bill, bills, hist, args, endReached>>

Contract_cancel_contract ==
    /\ kind = "MTM"
    /\ start' = NoneDate
    /\ IF bill = 0
       THEN \* self.bill.get_cost() on None raises after start is cleared
            /\ ret' = Raised("cancel_contract")
            /\ UNCHANGED cancelled
       ELSE /\ ret' = Returned("cancel_contract", get_cost(bills[bill]))
            /\ cancelled' = TRUE
    /\ UNCHANGED <<kind, end, commit, balance, bill, bills, hist, args, endReached>>

\* ---- TermContract --------------------------------------------------------
Term_is_first_month_MonthOnly(s, month, year) == s.month = month

\* the test of line 136: <month>, <year> are start's month and year
Term_is_first_month(s, month, year) == s.month = month /\ s.year = year

Term_commit_NotSticky(c, e, month, year) == month = e.month /\ year = e.year

\* self.commit after lines 139-140
Term_commit(c, e, month, year) ==
    IF month = e.month /\ year = e.year THEN TRUE ELSE c

Term_charges_KeepFree(b, first) ==
    LET prev == IF bill = 0 THEN 0 ELSE bills[bill].free_min
        b1 == IF first THEN add_fixed_cost(b, TERM_DEPOSIT) ELSE b
    IN  add_fixed_cost(set_rates(add_free_minutes(b1, prev),
                                 "TERM", TERM_MINS_COST), TERM_MONTHLY_FEE)

\* what TermContract.new_month registers on its bill argument
Term_charges(b, first) ==
    LET b1 == IF first THEN add_fixed_cost(b, TERM_DEPOSIT) ELSE b
    IN  add_fixed_cost(set_rates(b1, "TERM", TERM_MINS_COST), TERM_MONTHLY_FEE)

TermContract_new_month(month, year) ==
    /\ kind = "TERM"
    /\ Len(bills) < MaxBills
    /\ IF start = NoneDate
       THEN \* self.start.month on None raises before anything is changed
            /\ ret' = Raised("new_month")
            /\ UNCHANGED <<commit, bill, bills, hist, endReached>>
       ELSE /\ commit' = Term_commit(commit, end, month, year)
            /\ endReached' = (endReached \/ (month = args.end.month
                                             /\ year = args.end.year))
            /\ StoreBill(Term_charges(Bill_init,
                             Term_is_first_month(start, month, year)),
                         month, year)
            /\ ret' = Returned("new_month", 0)
    /\ UNCHANGED <<kind, start, end, balance, args, cancelled>>

Term_owed_NoRefund(cost, c) == cost

Term_owed_AlwaysRefund(cost, c) == cost - TERM_DEPOSIT

\* the amount TermContract.cancel_contract returns
Term_owed(cost, c) == IF c THEN cost - TERM_DEPOSIT ELSE cost

TermContract_cancel_contract_RefundOnBill ==
    /\ kind = "TERM"
    /\ IF bill = 0
       THEN /\ ret' = Raised("cancel_contract")
            /\ UNCHANGED <<start, end, cancelled, bills>>
       ELSE LET b == IF commit
                     THEN add_fixed_cost(bills[bill], 0 - TERM_DEPOSIT)
                     ELSE bills[bill]
            IN  /\ bills' = [bills EXCEPT ![bill] = b]
                /\ start' = NoneDate
                /\ end' = NoneDate
                /\ ret' = Returned("cancel_contract", get_cost(b))
                /\ cancelled' = TRUE
    /\ UNCHANGED <<kind, commit, balance, bill, hist, args, endReached>>

TermContract_cancel_contract ==
    /\ kind = "TERM"
    /\ IF bill = 0
       THEN \* self.bill.get_cost() on None raises before anything is changed
            /\ ret' = Raised("cancel_contract")
            /\ UNCHANGED <<start, end, cancelled>>
       ELSE /\ start' = NoneDate
            /\ end' = NoneDate
            /\ ret' = Returned("cancel_contract",
                               Term_owed(get_cost(bills[bill]), commit))
            /\ cancelled' = TRUE
    /\ UNCHANGED <<kind, commit, balance, bill, bills, hist, args, endReached>>

Term_add_call_NoMin(b, duration) ==
    LET free == TERM_MINS - b.free_min
        call_duration == Ceil60(duration)
    IN  IF free > 0
        THEN add_free_minutes(b, call_duration)
        ELSE add_billed_minutes(b, call_duration)

\* the bill after TermContract.bill_call, lines 172-180
Term_add_call(b, duration) ==
    LET free == TERM_MINS - b.free_min
        call_duration == Ceil60(duration)
        used_free == Min(call_duration, free)
    IN  IF free > 0
        THEN add_billed_minutes(add_free_minutes(b, used_free),
                                call_duration - used_free)
        ELSE add_billed_minutes(b, call_duration)

TermContract_bill_call(duration) ==
    /\ kind = "TERM"
    /\ NumCalls < MaxCalls
    /\ IF bill = 0
       THEN \* self.bill.free_min on None raises
            /\ ret' = Raised("bill_call")
            /\ UNCHANGED <<bills, hist>>
       ELSE /\ bills' = [bills EXCEPT ![bill] = Term_add_call(@, duration)]
            /\ NoteCall(duration)
            /\ ret' = Returned("bill_call", 0)
    /\ UNCHANGED <<kind, start, end, commit, balance, bill, args, endReached, cancelled>>

\* ---- PrepaidContract -----------------------------------------------------
Prepaid_recharge_AtThreshold(bal) ==
    IF bal >= RechargeThreshold THEN bal - RechargeAmount ELSE bal

\* self.balance after lines 215-216
Prepaid_recharge(bal) ==
    IF bal > RechargeThreshold THEN bal - RechargeAmount ELSE bal

Prepaid_carry_FixedOnly(bal) ==
    IF bill # 0 THEN bills[bill].fixed_cost ELSE bal

\* self.balance after lines 213-214
Prepaid_carry(bal) == IF bill # 0 THEN get_cost(bills[bill]) ELSE bal

PrepaidContract_new_month(month, year) ==
    /\ kind = "PREPAID"
    /\ Len(bills) < MaxBills
    /\ LET carried == Prepaid_carry(balance)
       IN  /\ balance' = Prepaid_recharge(carried)
           /\ StoreBill(set_rates(add_fixed_cost(Bill_init,
                                                 Prepaid_recharge(carried)),
                                  "PREPAID", PREPAID_MINS_COST), month, year)
    /\ ret' = Returned("new_month", 0)
    /\ UNCHANGED <<kind, start, end, commit, args, endReached, cancelled>>

Prepaid_owed_NoClamp(cost) == cost

\* the amount PrepaidContract.cancel_contract returns, lines 235-237
Prepaid_owed(cost) == IF cost < 0 THEN 0 ELSE cost

PrepaidContract_cancel_contract ==
    /\ kind = "PREPAID"
    /\ start' = NoneDate
    /\ IF bill = 0
       THEN \* self.bill.get_cost() on None raises after start is cleared
            /\ ret' = Raised("cancel_contract")
            /\ UNCHANGED <<balance, cancelled>>
       ELSE /\ ret' = Returned("cancel_contract",
                               Prepaid_owed(get_cost(bills[bill])))
            /\ balance' = 0
            /\ cancelled' = TRUE
    /\ UNCHANGED <<kind, end, commit, bill, bills, hist, args, endReached>>

Next ==
    \/ \E c \in Cycles : MTMContract_new_month(c[1], c[2])
    \/ \E c \in Cycles : TermContract_new_month(c[1], c[2])
    \/ \E c \in Cycles : PrepaidContract_new_month(c[1], c[2])
    \/ \E d \in Durations : Contract_bill_call(d)
    \/ \E d \in Durations : TermContract_bill_call(d)
    \/ Contract_cancel_contract
    \/ TermContract_cancel_contract
    \/ PrepaidContract_cancel_contract

Spec == Init /\ [][Next]_vars
\* ---- properties ----------------------------------------------------------
Max(a, b) == IF a > b THEN a ELSE b
CurBill == bills[bill]
CurHist == hist[bill]
CancelReturned == ret.op = "cancel_contract" /\ ~ret.raised

\* C1: TermContract, within one cycle: after any sequence of bill_call on the
\* current bill the free minutes are min(100, M) and the billed minutes are
\* max(0, M - 100), M being the sum of the calls' whole minutes; the billed
\* minutes are charged at 0.10 per minute.
C1_FreeBeforePaid ==
    (kind = "TERM" /\ bill # 0) =>
        /\ CurBill.free_min = Min(100, CurHist.mins)
        /\ CurBill.billed_min = Max(0, CurHist.mins - 100)
        /\ get_cost(CurBill) - CurBill.fixed_cost
              = 100 * Max(0, CurHist.mins - 100)

C1_Witness ==
    /\ kind = "TERM" /\ bill # 0
    /\ CurHist.calls = 2
    /\ CurHist.mins = 117
    /\ CurBill.free_min = 100
    /\ CurBill.billed_min = 17
    /\ get_cost(CurBill) = 321700

\* C2: TermContract: cancel_contract after some new_month matched end's month
\* and year returns the current bill's cost minus 300.00; when no new_month
\* ever matched, it returns the current bill's cost.
C2_RefundIffEndReached ==
    (kind = "TERM" /\ CancelReturned) =>
        ret.value = get_cost(CurBill) - (IF endReached THEN 300000 ELSE 0)

C2_Witness ==
    /\ kind = "TERM" /\ CancelReturned
    /\ endReached
    /\ Len(bills) >= 2
    /\ CurBill.billed_min > 0
    /\ ret.value = get_cost(CurBill) - 300000

\* C3: PrepaidContract, every new_month: when the balance at the recharge
\* check (the negated initial credit on the first cycle, the previous bill's
\* cost later) is greater than -10.00 the new bill's fixed cost is that
\* balance minus 25.00, otherwise (-10.00 included) it is that balance.
C3_Recharge ==
    kind = "PREPAID" =>
        \A i \in 1..Len(bills) :
            LET checked == IF i = 1 THEN 0 - args.balance
                           ELSE get_cost(bills[i - 1])
            IN  bills[i].fixed_cost =
                    IF checked > -10000 THEN checked - 25000 ELSE checked

C3_Witness ==
    /\ kind = "PREPAID"
    /\ args.balance = 35000
    /\ Len(bills) = 3
    /\ bills[1].fixed_cost = -35000
    /\ get_cost(bills[1]) = -10000
    /\ bills[2].fixed_cost = -10000
    /\ get_cost(bills[2]) > -10000
    /\ bills[3].fixed_cost = get_cost(bills[2]) - 25000

\* C4: PrepaidContract: cancel_contract returns 0 when the current bill's cost
\* is negative and that cost otherwise, and leaves the balance at 0.
C4_PrepaidClamp ==
    (kind = "PREPAID" /\ CancelReturned) =>
        /\ ret.value = (IF get_cost(CurBill) < 0 THEN 0 ELSE get_cost(CurBill))
        /\ balance = 0

C4_Witness ==
    /\ kind = "PREPAID" /\ CancelReturned
    /\ get_cost(CurBill) < 0
    /\ CurBill.billed_min > 0
    /\ ret.value = 0
    /\ balance = 0

\* C5: MTMContract: in any cycle, whatever happened in earlier cycles, the
\* current bill's cost is 50.00 + 0.05 x the whole minutes of the calls
\* billed in that cycle.
C5_MTMCost ==
    (kind = "MTM" /\ bill # 0) =>
        get_cost(CurBill) = 50000 + 50 * CurHist.mins

C5_Witness ==
    /\ kind = "MTM"
    /\ bill = 2
    /\ hist[1].calls = 1
    /\ CurHist.calls = 1
    /\ get_cost(CurBill) = 50000 + 50 * 3

\* C6: TermContract: a bill with no calls costs 320.00 when its new_month was
\* called with start's month and year and 20.00 otherwise; over new_month
\* calls with pairwise distinct month/year the deposit is charged at most once.
C6_DepositFirstMonthOnly ==
    kind = "TERM" =>
        /\ \A i \in 1..Len(bills) :
              hist[i].calls = 0 =>
                  get_cost(bills[i]) =
                      IF hist[i].month = args.start.month
                         /\ hist[i].year = args.start.year
                      THEN 320000 ELSE 20000
        /\ (\A i, j \in 1..Len(hist) :
               i # j => <<hist[i].month, hist[i].year>>
                          # <<hist[j].month, hist[j].year>>)
           => Cardinality({i \in 1..Len(bills) :
                              bills[i].fixed_cost >= 300000}) <= 1

C6_Witness ==
    /\ kind = "TERM"
    /\ Len(bills) = 3
    /\ \A i \in 1..3 : hist[i].calls = 0
    /\ get_cost(bills[1]) = 320000
    /\ get_cost(bills[2]) = 20000
    /\ hist[3].month = args.start.month /\ hist[3].year # args.start.year
    /\ get_cost(bills[3]) = 20000

\* C7: TermContract: commit is false at creation, is true exactly when some
\* new_month was called with end's month and year, and once true stays true
\* after every later operation.
C7_CommitSticky ==
    /\ [](kind = "TERM" => commit = endReached)
    /\ [][commit => commit']_vars

C7_Witness ==
    /\ kind = "TERM"
    /\ commit
    /\ cancelled
    /\ Len(bills) >= 2
    /\ hist[1].month = args.end.month /\ hist[1].year = args.end.year
    /\ hist[2].month # args.end.month
    /\ hist[2].calls > 0

\* C8: once cancel_contract has returned, any further new_month or bill_call
\* raises and changes neither the contract nor any bill.
C8_RejectAfterCancel ==
    [][(cancelled /\ ret'.op \in {"new_month", "bill_call"}) =>
           /\ ret'.raised
           /\ UNCHANGED <<start, end, commit, balance, bill, bills>>]_vars

\* C9 (as stated): the amount cancel_contract returns is never negative.
C9_NeverNegative == CancelReturned => ret.value >= 0

\* C9 (amended): the amount cancel_contract returns is never negative for an
\* MTMContract, a PrepaidContract and a TermContract whose commit is false;
\* for a TermContract whose commit is true it is the current bill's cost
\* minus 300.00, unclamped, and so negative when that cost is below 300.00.
C9_NegativeOnlyTermRefund ==
    CancelReturned =>
        IF kind = "TERM" /\ commit
        THEN /\ ret.value = get_cost(CurBill) - 300000
             /\ (ret.value < 0 <=> get_cost(CurBill) < 300000)
        ELSE ret.value >= 0

C9_Witness ==
    /\ kind = "TERM" /\ commit /\ CancelReturned
    /\ get_cost(CurBill) < 300000
    /\ ret.value < 0

\* C10: TermContract: the free minutes are not carried across cycles: right
\* after new_month the whole 100 free minutes are available, whatever was
\* consumed in earlier cycles.
C10_FreePoolReset ==
    (kind = "TERM" /\ ret.op = "new_month" /\ ~ret.raised) =>
        TERM_MINS - CurBill.free_min = 100

C10_Witness ==
    /\ kind = "TERM" /\ ret.op = "new_month" /\ ~ret.raised
    /\ bill = 2
    /\ bills[1].free_min = 100
    /\ bills[1].billed_min > 0
    /\ CurBill.free_min = 0
\* C11: PrepaidContract: a new_month other than the first sets the balance to
\* the previous bill's cost (fixed cost + 0.025 x billed minutes) before the
\* recharge check; the first new_month checks the balance of creation.
C11_CarryOver ==
    (kind = "PREPAID" /\ ret.op = "new_month") =>
        LET n == Len(bills)
            carried == IF n = 1 THEN 0 - args.balance
                       ELSE bills[n - 1].fixed_cost
                            + 25 * bills[n - 1].billed_min
        IN  balance = IF carried > -10000 THEN carried - 25000 ELSE carried

C11_Witness ==
    /\ kind = "PREPAID" /\ ret.op = "new_month"
    /\ Len(bills) = 2
    /\ args.balance = 35000
    /\ bills[1].fixed_cost = -35000
    /\ bills[1].billed_min = 1003
    /\ balance = -9925 - 25000
    /\ CurBill.fixed_cost = balance

\* C12: bill_call or cancel_contract before any new_month has set the bill
\* raises: it returns no value and records no minutes.
C12_FailFastWithoutBill ==
    [][(bill = 0 /\ ret'.op \in {"bill_call", "cancel_contract"}) =>
           /\ ret'.raised
           /\ ~cancelled'
           /\ UNCHANGED <<bill, bills, hist>>]_vars

C12_Witness ==
    /\ bill = 0
    /\ bills = <<>>
    /\ ret.op = "cancel_contract"
    /\ ret.raised
    /\ ~cancelled

\* d1 < d2 on datetime.date values
DateLess(d1, d2) ==
    \/ d1.year < d2.year
    \/ d1.year = d2.year /\ d1.month < d2.month
    \/ d1.year = d2.year /\ d1.month = d2.month /\ d1.day < d2.day

\* C13: every PrepaidContract was created with a credit >= 0 (initial balance
\* <= 0) and every active TermContract has end strictly after start, creation
\* with other arguments having failed.
C13_ConstructorsReject ==
    /\ kind = "PREPAID" => (args.balance >= 0 /\ 0 - args.balance <= 0)
    /\ (kind = "TERM" /\ start # NoneDate) => DateLess(start, end)

\* C14: a cancel_contract that returns changes only the lifecycle fields:
\* start is cleared, a TermContract's end is cleared, a PrepaidContract's
\* balance becomes 0; the bills, the current bill reference and commit are
\* left as they were.
C14_CancelFrame ==
    [][(ret'.op = "cancel_contract" /\ ~ret'.raised) =>
           /\ start' = NoneDate
           /\ end' = (IF kind = "TERM" THEN NoneDate ELSE end)
           /\ balance' = (IF kind = "PREPAID" THEN 0 ELSE balance)
           /\ UNCHANGED <<kind, commit, bill, bills>>]_vars

C14_Witness ==
    /\ kind = "TERM"
    /\ ret.op = "cancel_contract" /\ ~ret.raised
    /\ start = NoneDate /\ end = NoneDate
    /\ commit
    /\ bill = 2
    /\ bills[1].billed_min > 0
    /\ CurBill.free_min > 0

\* C15: the current bill is always the one the latest new_month was given,
\* and no operation changes a bill of an earlier cycle.
C15_EarlierBillsFrozen ==
    /\ [](bill = Len(bills))
    /\ [][\A i \in 1..Len(bills) :
              i < Len(bills') => bills'[i] = bills[i]]_vars

C15_Witness ==
    /\ kind = "PREPAID"
    /\ Len(bills) = 3
    /\ bill = 3
    /\ hist[1].calls = 1
    /\ hist[3].calls = 1
    /\ cancelled

\* C16: a cancel_contract that raises because no bill has been set leaves
\* start, end and balance as they were.
C16_FailedCancelChangesNothing ==
    [][(ret'.op = "cancel_contract" /\ ret'.raised) =>
           UNCHANGED <<start, end, balance, commit, bill, bills>>]_vars
====
